---- MODULE Spec2Model ----
(***************************************************************************)
(* Model of the inventory-management API handlers.                         *)
(*                                                                         *)
(*   src/src/pages/api/transfers/index.js   POST /api/transfers            *)
(*   src/src/pages/api/alerts/index.js      GET, POST, DELETE /api/alerts  *)
(*                                                                         *)
(* The persisted JSON files (stock.json, transfers.json, products.json,    *)
(* warehouses.json, alerts.json) are the state.  A request body is a JSON object whose  *)
(* fields are JavaScript values; the JavaScript conversions the handler    *)
(* applies to them (truthiness, ===, <=, parseInt, JSON.stringify) are     *)
(* modelled by what they compute.                                          *)
(***************************************************************************)
EXTENDS Integers, Sequences, FiniteSets

VARIABLES
    stock,       \* stock.json: sequence of [id, productId, warehouseId, quantity]
    transfers,   \* transfers.json: sequence of transfer records
    products,    \* products.json
    warehouses,  \* warehouses.json
    alerts,      \* alerts.json: sequence of acknowledgment records
    now,         \* the clock read by new Date()
    requests,    \* the POST /api/transfers requests received by the server
    dashboard,   \* what the dashboard page (Home) shows
    ui,          \* the page with the keyboard shortcuts and the last keydown
    res          \* the response to the last request

vars == <<stock, transfers, products, warehouses, alerts, now, requests, dashboard, ui, res>>

(***************************************************************************)
(* Bounds of the model.                                                    *)
(***************************************************************************)
MaxTransfers == 2

(***************************************************************************)
(* JavaScript values carried by a JSON request body.                       *)
(*   t = "undefined" : the field is absent                                 *)
(*   t = "number"    : n is twice the number (so 1 stands for 0.5)         *)
(*   t = "string"    : s is the string, one character per element          *)
(***************************************************************************)
JUndefined == [t |-> "undefined", n |-> 0, s |-> <<>>]
JNumber(twice) == [t |-> "number", n |-> twice, s |-> <<>>]
JString(chars) == [t |-> "string", n |-> 0, s |-> chars]

(***************************************************************************)
(* JavaScript numbers computed by the handler and stored in the files.     *)
(*   k = "int"  : the integer v                                            *)
(*   k = "NaN"  : not-a-number (in memory only)                            *)
(*   k = "null" : JSON null (what JSON.stringify writes for NaN)           *)
(***************************************************************************)
I(v) == [k |-> "int", v |-> v]
NaN == [k |-> "NaN", v |-> 0]
Null == [k |-> "null", v |-> 0]

Digits == <<"0", "1", "2", "3", "4", "5", "6", "7", "8", "9">>
IsDigit(c) == \E i \in 1..10 : Digits[i] = c
DigitValue(c) == (CHOOSE i \in 1..10 : Digits[i] = c) - 1
IsWhiteSpace(c) == c = " "

Abs(x) == IF x < 0 THEN -x ELSE x

\* Decimal digits of a natural number, most significant first.
RECURSIVE NatToString(_)
NatToString(x) ==
    IF x < 10 THEN <<Digits[x + 1]>>
    ELSE NatToString(x \div 10) \o <<Digits[(x % 10) + 1]>>

\* Number.prototype.toString for a number given as twice its value.
NumberToString(twice) ==
    (IF twice < 0 THEN <<"-">> ELSE <<>>)
        \o NatToString(Abs(twice) \div 2)
        \o (IF Abs(twice) % 2 = 1 THEN <<".", "5">> ELSE <<>>)

\* String(v) as applied by parseInt to its argument.
StringOf(v) ==
    CASE v.t = "string" -> v.s
      [] v.t = "number" -> NumberToString(v.n)
      [] OTHER -> <<"u", "n", "d", "e", "f", "i", "n", "e", "d">>

RECURSIVE TrimStart(_)
TrimStart(chars) ==
    IF chars # <<>> /\ IsWhiteSpace(Head(chars)) THEN TrimStart(Tail(chars))
    ELSE chars

RECURSIVE TrimEnd(_)
TrimEnd(chars) ==
    IF chars # <<>> /\ IsWhiteSpace(chars[Len(chars)])
    THEN TrimEnd(SubSeq(chars, 1, Len(chars) - 1))
    ELSE chars

\* The longest prefix of decimal digits.
RECURSIVE DigitPrefix(_)
DigitPrefix(chars) ==
    IF chars # <<>> /\ IsDigit(Head(chars))
    THEN <<Head(chars)>> \o DigitPrefix(Tail(chars))
    ELSE <<>>

RECURSIVE DigitsValue(_, _)
DigitsValue(chars, acc) ==
    IF chars = <<>> THEN acc
    ELSE DigitsValue(Tail(chars), 10 * acc + DigitValue(Head(chars)))

\* parseInt(v): skip leading white space, take an optional sign and the
\* longest run of decimal digits; NaN when there is no digit.
parseInt(v) ==
    LET str == TrimStart(StringOf(v))
        signed == str # <<>> /\ Head(str) \in {"-", "+"}
        negative == str # <<>> /\ Head(str) = "-"
        digits == DigitPrefix(IF signed THEN Tail(str) ELSE str)
    IN  IF digits = <<>> THEN NaN
        ELSE I((IF negative THEN -1 ELSE 1) * DigitsValue(digits, 0))

AllZero(chars) == \A i \in 1..Len(chars) : chars[i] = "0"

\* Sign of Number(v), the conversion applied by the <= operator:
\* "NaN", "neg", "zero" or "pos".  A string converts as a numeric literal
\* (white space trimmed, the empty string is 0, anything else is NaN).
NumericSign(v) ==
    CASE v.t = "undefined" -> "NaN"
      [] v.t = "number" ->
            IF v.n < 0 THEN "neg" ELSE IF v.n = 0 THEN "zero" ELSE "pos"
      [] OTHER ->
            LET str == TrimEnd(TrimStart(v.s))
                signed == str # <<>> /\ Head(str) \in {"-", "+"}
                negative == str # <<>> /\ Head(str) = "-"
                body == IF signed THEN Tail(str) ELSE str
                whole == DigitPrefix(body)
                rest == SubSeq(body, Len(whole) + 1, Len(body))
                dotted == rest # <<>> /\ Head(rest) = "."
                frac == IF dotted THEN DigitPrefix(Tail(rest)) ELSE <<>>
                tail == IF dotted
                        THEN SubSeq(rest, Len(frac) + 2, Len(rest))
                        ELSE rest
            IN  IF str = <<>> THEN "zero"
                ELSE IF tail # <<>> \/ (whole = <<>> /\ frac = <<>>) THEN "NaN"
                ELSE IF AllZero(whole) /\ AllZero(frac) THEN "zero"
                ELSE IF negative THEN "neg" ELSE "pos"

\* !v
Falsy(v) ==
    \/ v.t \in {"undefined", "null"}
    \/ v.t = "number" /\ v.n = 0
    \/ v.t = "string" /\ v.s = <<>>

\* a === b on request values (same type and same value).
StrictEquals(a, b) == a = b

\* quantity <= 0
LessOrEqualZero(v) == NumericSign(v) \in {"neg", "zero"}

\* Number arithmetic on stored quantities: null converts to 0, NaN absorbs.
ToInt(x) == IF x.k = "int" THEN x.v ELSE 0
LessThan(a, b) == a.k # "NaN" /\ b.k # "NaN" /\ ToInt(a) < ToInt(b)
Minus(a, b) == IF a.k = "NaN" \/ b.k = "NaN" THEN NaN ELSE I(ToInt(a) - ToInt(b))
Plus(a, b) == IF a.k = "NaN" \/ b.k = "NaN" THEN NaN ELSE I(ToInt(a) + ToInt(b))
\* x || 0 on a number
OrZero(x) == IF x.k # "int" \/ x.v = 0 THEN I(0) ELSE x
\* JSON.stringify followed by JSON.parse of a number
Stringify(x) == IF x.k = "NaN" THEN Null ELSE x

(***************************************************************************)
(* The request bodies sent to POST /api/transfers.                         *)
(***************************************************************************)
Num(i) == JNumber(2 * i)

ProductIdValues == {JUndefined, JString(<<"1">>), Num(9)}
WarehouseIdValues == {JUndefined, Num(1), JString(<<"1">>), Num(2), Num(9)}
QuantityValues ==
    {JUndefined, Num(-1), Num(1), JNumber(1), JNumber(3),
     JString(<<"2">>), JString(<<"a", "b", "c">>), JString(<<"-", "1", "a">>)}
NotesValues == {JUndefined}
\* The notes only label the transfer record; the properties that speak of
\* them are stated over requests with and without notes.
AnyNotes == {JUndefined, JString(<<"n">>)}

Bodies ==
    [productId : ProductIdValues,
     fromWarehouseId : WarehouseIdValues,
     toWarehouseId : WarehouseIdValues,
     quantity : QuantityValues,
     notes : NotesValues]

\* parseInt tabulated over the values a request field can take (the handler
\* calls parseInt on the same field many times).
parseIntOf ==
    [v \in ProductIdValues \cup WarehouseIdValues \cup QuantityValues |-> parseInt(v)]

\* Outcome of the file system calls of one request: all succeed, a read
\* throws, the write of transfers.json throws, the write of stock.json throws.
IOOutcomes == {"ok", "readFails", "writeTransfersFails", "writeStockFails"}

(***************************************************************************)
(* Responses.                                                              *)
(***************************************************************************)
NoTransfer ==
    [id |-> 0, productId |-> 0, fromWarehouseId |-> 0, toWarehouseId |-> 0,
     quantity |-> I(0), notes |-> <<>>, date |-> 0, status |-> ""]

Response(status, error) ==
    [status |-> status, error |-> error, warehouse |-> "",
     available |-> I(0), requested |-> JUndefined, transfer |-> NoTransfer]

\* `Insufficient stock in ${name}. Available: ${a}, Requested: ${q}`
InsufficientStockResponse(name, a, q) ==
    [status |-> 400, error |-> "Insufficient stock", warehouse |-> name,
     available |-> a, requested |-> q, transfer |-> NoTransfer]

Created(transfer) ==
    [status |-> 201, error |-> "", warehouse |-> "",
     available |-> I(0), requested |-> JUndefined, transfer |-> transfer]

NoResponse == Response(0, "")

(***************************************************************************)
(* POST /api/transfers                                                     *)
(***************************************************************************)
\* array.find / findIndex: the first index that satisfies the test, 0 if none
FirstIndex(S) == IF S = {} THEN 0 ELSE CHOOSE i \in S : \A j \in S : i <= j

findProduct(productId) ==
    FirstIndex({i \in 1..Len(products) : I(products[i].id) = parseIntOf[productId]})

findWarehouse(warehouseId) ==
    FirstIndex({i \in 1..Len(warehouses) : I(warehouses[i].id) = parseIntOf[warehouseId]})

findStock(stk, productId, warehouseId) ==
    FirstIndex({i \in 1..Len(stk) :
        /\ I(stk[i].productId) = parseIntOf[productId]
        /\ I(stk[i].warehouseId) = parseIntOf[warehouseId]})

MissingRequiredFields(body) ==
    \/ Falsy(body.productId)
    \/ Falsy(body.fromWarehouseId)
    \/ Falsy(body.toWarehouseId)
    \/ Falsy(body.quantity)

\* The comparison made on the wrong pair of fields.
SameWarehouseWrongField(body) == StrictEquals(body.fromWarehouseId, body.productId)

SameWarehouse(body) == StrictEquals(body.fromWarehouseId, body.toWarehouseId)

InvalidQuantity(body) == LessOrEqualZero(body.quantity)

InsufficientStock(stk, sourceStock, quantity) ==
    \/ sourceStock = 0
    \/ LessThan(stk[sourceStock].quantity, parseIntOf[quantity])

Max(S) == CHOOSE x \in S : \A y \in S : y <= x

\* The largest id again, without the increment.
newTransferIdNoIncrement(trs) ==
    IF Len(trs) > 0 THEN Max({trs[i].id : i \in 1..Len(trs)}) ELSE 1

newTransferId(trs) ==
    IF Len(trs) > 0 THEN Max({trs[i].id : i \in 1..Len(trs)}) + 1 ELSE 1

newStockId(stk) ==
    IF Len(stk) > 0 THEN Max({stk[i].id : i \in 1..Len(stk)}) + 1 ELSE 1

newTransfer(trs, body, date) ==
    [id |-> newTransferId(trs),
     productId |-> parseIntOf[body.productId].v,
     fromWarehouseId |-> parseIntOf[body.fromWarehouseId].v,
     toWarehouseId |-> parseIntOf[body.toWarehouseId].v,
     quantity |-> parseIntOf[body.quantity],
     notes |-> IF Falsy(body.notes) THEN <<>> ELSE body.notes.s,
     date |-> date,
     status |-> "completed"]

\* sourceStock.quantity -= parseInt(quantity)
decreaseSource(stk, sourceStock, quantity) ==
    [stk EXCEPT ![sourceStock].quantity = Minus(@, parseIntOf[quantity])]

\* The destination entry is pushed without looking for an existing one.
increaseDestAlwaysPush(stk, body) ==
    Append(stk, [id |-> newStockId(stk),
                 productId |-> parseIntOf[body.productId].v,
                 warehouseId |-> parseIntOf[body.toWarehouseId].v,
                 quantity |-> parseIntOf[body.quantity]])

\* destStock.quantity += parseInt(quantity), or push a new stock entry
increaseDest(stk, body) ==
    LET destStock == findStock(stk, body.productId, body.toWarehouseId)
    IN  IF destStock # 0
        THEN [stk EXCEPT ![destStock].quantity = Plus(@, parseIntOf[body.quantity])]
        ELSE Append(stk, [id |-> newStockId(stk),
                          productId |-> parseIntOf[body.productId].v,
                          warehouseId |-> parseIntOf[body.toWarehouseId].v,
                          quantity |-> parseIntOf[body.quantity]])

\* What writeJSONFile leaves in the file: JSON.stringify turns NaN into null.
writeStock(stk) == [i \in 1..Len(stk) |-> [stk[i] EXCEPT !.quantity = Stringify(@)]]
writeTransfers(trs) == [i \in 1..Len(trs) |-> [trs[i] EXCEPT !.quantity = Stringify(@)]]

Outcome(r, stk, trs) == [res |-> r, stock |-> stk, transfers |-> trs]

\* An early return: nothing is written.
Rejected(r) == Outcome(r, stock, transfers)

\* "Validation": the checks made on the request body alone.  The response
\* of the first check that fails, NoResponse when all pass.
validation(body) ==
    IF MissingRequiredFields(body)
    THEN Response(400, "Missing required fields")
    ELSE IF SameWarehouse(body)
    THEN Response(400, "Source and destination warehouses must be different")
    ELSE IF InvalidQuantity(body)
    THEN Response(400, "Quantity must be greater than 0")
    ELSE NoResponse

\* "Read current data" and the checks made against it.
verification(body, io) ==
    IF io = "readFails"
    THEN Response(500, "Failed to create transfer")
    ELSE IF findProduct(body.productId) = 0
    THEN Response(404, "Product not found")
    ELSE IF findWarehouse(body.fromWarehouseId) = 0 \/ findWarehouse(body.toWarehouseId) = 0
    THEN Response(404, "Warehouse not found")
    ELSE
    LET fromWarehouse == warehouses[findWarehouse(body.fromWarehouseId)]
        sourceStock == findStock(stock, body.productId, body.fromWarehouseId)
    IN  IF InsufficientStock(stock, sourceStock, body.quantity)
        THEN InsufficientStockResponse(
                 fromWarehouse.name,
                 IF sourceStock = 0 THEN I(0) ELSE OrZero(stock[sourceStock].quantity),
                 body.quantity)
        ELSE NoResponse

\* "Create new transfer", "Update stock levels", "Save updated data".
execution(body, io) ==
    LET sourceStock == findStock(stock, body.productId, body.fromWarehouseId)
        transfer == newTransfer(transfers, body, now)
        updated == increaseDest(decreaseSource(stock, sourceStock, body.quantity), body)
        appended == Append(transfers, transfer)
    IN  CASE io = "writeTransfersFails" ->
                Rejected(Response(500, "Failed to create transfer"))
          [] io = "writeStockFails" ->
                Outcome(Response(500, "Failed to create transfer"),
                        stock, writeTransfers(appended))
          [] OTHER ->
                Outcome(Created([transfer EXCEPT !.quantity = Stringify(@)]),
                        writeStock(updated), writeTransfers(appended))

\* The validation check on the quantity answers 400 but does not return.
createTransferMissingReturn(body, io) ==
    LET early == validation(body)
        fallsThrough == early.error = "Quantity must be greater than 0"
    IN  IF early # NoResponse /\ ~fallsThrough
        THEN Rejected(early)
        ELSE IF verification(body, io) # NoResponse
        THEN Rejected(IF fallsThrough THEN early ELSE verification(body, io))
        ELSE IF fallsThrough
        THEN Outcome(early, execution(body, io).stock, execution(body, io).transfers)
        ELSE execution(body, io)

\* The handler's POST branch: the response and the contents of stock.json
\* and transfers.json after the request.
createTransfer(body, io) ==
    IF validation(body) # NoResponse
    THEN Rejected(validation(body))
    ELSE IF verification(body, io) # NoResponse
    THEN Rejected(verification(body, io))
    ELSE execution(body, io)

\* The file system outcomes a request can meet: a read can throw only when
\* the handler gets to read (the validation passed), a write only when it
\* gets to write (the verification passed too).
ReachedOutcomes(body) ==
    IF validation(body) # NoResponse THEN {"ok"}
    ELSE IF verification(body, "ok") # NoResponse THEN {"ok", "readFails"}
    ELSE IOOutcomes

(***************************************************************************)
(* GET /api/transfers                                                      *)
(***************************************************************************)
\* The transfer with the names of its product and warehouses (the sku is
\* left out).
enrich(transfer, prods, whs) ==
    LET product == FirstIndex({i \in 1..Len(prods) : prods[i].id = transfer.productId})
        fromWarehouse == FirstIndex({i \in 1..Len(whs) : whs[i].id = transfer.fromWarehouseId})
        toWarehouse == FirstIndex({i \in 1..Len(whs) : whs[i].id = transfer.toWarehouseId})
    IN  [id |-> transfer.id,
         productId |-> transfer.productId,
         fromWarehouseId |-> transfer.fromWarehouseId,
         toWarehouseId |-> transfer.toWarehouseId,
         quantity |-> transfer.quantity,
         date |-> transfer.date,
         status |-> transfer.status,
         productName |-> IF product = 0 THEN "Unknown Product" ELSE prods[product].name,
         fromWarehouseName |->
            IF fromWarehouse = 0 THEN "Unknown Warehouse" ELSE whs[fromWarehouse].name,
         toWarehouseName |->
            IF toWarehouse = 0 THEN "Unknown Warehouse" ELSE whs[toWarehouse].name]

\* A comparator with the operands exchanged: oldest first.
insertByDateAscending(sorted, a) ==
    LET before == {i \in 1..Len(sorted) : a.date - sorted[i].date < 0}
        at == IF before = {} THEN Len(sorted) + 1 ELSE FirstIndex(before)
    IN  SubSeq(sorted, 1, at - 1) \o <<a>> \o SubSeq(sorted, at, Len(sorted))

\* The place the stable sort gives a among the elements before it: ahead of
\* the first one with new Date(b.date) - new Date(a.date) < 0.
insertByDate(sorted, a) ==
    LET before == {i \in 1..Len(sorted) : sorted[i].date - a.date < 0}
        at == IF before = {} THEN Len(sorted) + 1 ELSE FirstIndex(before)
    IN  SubSeq(sorted, 1, at - 1) \o <<a>> \o SubSeq(sorted, at, Len(sorted))

RECURSIVE sortByDate(_)
sortByDate(list) ==
    IF list = <<>> THEN <<>>
    ELSE insertByDate(sortByDate(SubSeq(list, 1, Len(list) - 1)), list[Len(list)])

TransfersResponse(status, error, list) ==
    [status |-> status, error |-> error, list |-> list]

\* GET: the enriched transfers, newest first, or 500 when a read fails
listTransfers(trs, prods, whs, io) ==
    IF io = "readFails"
    THEN TransfersResponse(500, "Failed to read transfers", <<>>)
    ELSE TransfersResponse(200, "",
            sortByDate([i \in 1..Len(trs) |-> enrich(trs[i], prods, whs)]))

(***************************************************************************)
(* GET /api/alerts                                                         *)
(***************************************************************************)
JNull == [t |-> "null", n |-> 0, s |-> <<>>]
\* new Date().toISOString() at clock value date: a non-empty string
JDate(date) == [t |-> "date", n |-> date, s |-> <<>>]

\* Total stock of a product: the quantities of its entries added up as
\* JavaScript adds them (null counts as 0).
RECURSIVE totalQuantity(_, _)
totalQuantity(stk, productId) ==
    IF stk = <<>> THEN 0
    ELSE (IF Head(stk).productId = productId THEN ToInt(Head(stk).quantity) ELSE 0)
         + totalQuantity(Tail(stk), productId)

\* Math.ceil of a number given as twice its value (Floor rounds down).
Floor(twice) == twice \div 2
Ceil(twice) == -((-twice) \div 2)

\* Which branch of the classification is taken; the thresholds
\* reorderPoint * 0.5 and reorderPoint * 3 are compared after doubling.
stockStatusLowInclusive(total, reorderPoint) ==
    IF 2 * total < reorderPoint THEN "critical"
    ELSE IF total <= reorderPoint THEN "low"
    ELSE IF total > 3 * reorderPoint THEN "overstocked"
    ELSE "adequate"

stockStatus(total, reorderPoint) ==
    IF 2 * total < reorderPoint THEN "critical"
    ELSE IF total < reorderPoint THEN "low"
    ELSE IF total > 3 * reorderPoint THEN "overstocked"
    ELSE "adequate"

\* The values the variables are declared with.
defaults ==
    [status |-> "adequate", severity |-> "low",
     recommendedAction |-> "No action needed", reorderQuantity |-> 0]

\* What the branch taken assigns, here with a last branch that only sets
\* the status.
assignKeepsDefaults(branch, total, reorderPoint) ==
    CASE branch = "critical" ->
            [status |-> "critical", severity |-> "critical",
             recommendedAction |-> "URGENT: Immediate reorder required",
             reorderQuantity |-> Ceil(4 * reorderPoint - 2 * total)]
      [] branch = "low" ->
            [status |-> "low", severity |-> "high",
             recommendedAction |-> "Reorder recommended",
             reorderQuantity |-> Ceil(3 * reorderPoint - 2 * total)]
      [] branch = "overstocked" ->
            [status |-> "overstocked", severity |-> "medium",
             recommendedAction |-> "Consider redistribution or promotion",
             reorderQuantity |-> 0]
      [] OTHER -> [defaults EXCEPT !.status = "adequate"]

\* What the branch taken assigns.
assign(branch, total, reorderPoint) ==
    CASE branch = "critical" ->
            [status |-> "critical", severity |-> "critical",
             recommendedAction |-> "URGENT: Immediate reorder required",
             reorderQuantity |-> Ceil(4 * reorderPoint - 2 * total)]
      [] branch = "low" ->
            [status |-> "low", severity |-> "high",
             recommendedAction |-> "Reorder recommended",
             reorderQuantity |-> Ceil(3 * reorderPoint - 2 * total)]
      [] branch = "overstocked" ->
            [status |-> "overstocked", severity |-> "medium",
             recommendedAction |-> "Consider redistribution or promotion",
             reorderQuantity |-> 0]
      [] OTHER ->
            [defaults EXCEPT !.status = "adequate", !.severity = "low",
                             !.recommendedAction = "Stock levels healthy",
                             !.reorderQuantity = 0]

\* A classification that takes a product without a reorder point out.
classifyUnlessZero(total, reorderPoint) ==
    IF reorderPoint = 0
    THEN assign("adequate", total, reorderPoint)
    ELSE assign(stockStatus(total, reorderPoint), total, reorderPoint)

classify(total, reorderPoint) ==
    assign(stockStatus(total, reorderPoint), total, reorderPoint)

severityOrder(severity) ==
    CASE severity = "critical" -> 0
      [] severity = "high" -> 1
      [] severity = "medium" -> 2
      [] OTHER -> 3

\* alerts.find(a => a.productId === product.id)
findAlert(als, productId) ==
    FirstIndex({i \in 1..Len(als) : als[i].productId = I(productId)})

\* stock.filter(s => s.productId === product.id) mapped to the breakdown
RECURSIVE warehouseBreakdown(_, _, _)
warehouseBreakdown(stk, whs, productId) ==
    IF stk = <<>> THEN <<>>
    ELSE (IF Head(stk).productId = productId
          THEN LET w == FirstIndex({i \in 1..Len(whs) : whs[i].id = Head(stk).warehouseId})
               IN  << [warehouseId |-> Head(stk).warehouseId,
                       warehouseName |-> IF w = 0 THEN "Unknown" ELSE whs[w].name,
                       quantity |-> Head(stk).quantity] >>
          ELSE <<>>)
         \o warehouseBreakdown(Tail(stk), whs, productId)

\* The alert computed for one product (estimatedCost and the display
\* fields copied from the product are left out).
productAlert(product, stk, whs, als) ==
    LET total == totalQuantity(stk, product.id)
        class == classify(total, product.reorderPoint)
        alertRecord == findAlert(als, product.id)
    IN  [productId |-> product.id,
         currentStock |-> total,
         reorderPoint |-> product.reorderPoint,
         status |-> class.status,
         severity |-> class.severity,
         recommendedAction |-> class.recommendedAction,
         reorderQuantity |-> class.reorderQuantity,
         warehouseBreakdown |-> warehouseBreakdown(stk, whs, product.id),
         acknowledged |-> alertRecord # 0 /\ als[alertRecord].acknowledged,
         acknowledgedAt |-> IF alertRecord = 0 \/ Falsy(als[alertRecord].acknowledgedAt)
                            THEN JNull ELSE als[alertRecord].acknowledgedAt,
         acknowledgedBy |-> IF alertRecord = 0 \/ Falsy(als[alertRecord].acknowledgedBy)
                            THEN JNull ELSE als[alertRecord].acknowledgedBy]

\* A sort that puts an element before its equals as well.
RECURSIVE insertBeforeEquals(_, _)
insertBeforeEquals(sorted, a) ==
    IF sorted = <<>> THEN <<a>>
    ELSE IF severityOrder(a.severity) - severityOrder(Head(sorted).severity) <= 0
    THEN <<a>> \o sorted
    ELSE <<Head(sorted)>> \o insertBeforeEquals(Tail(sorted), a)

\* Array.prototype.sort is stable: an element goes after every element the
\* comparison does not put it before.
RECURSIVE insert(_, _)
insert(sorted, a) ==
    IF sorted = <<>> THEN <<a>>
    ELSE IF severityOrder(a.severity) - severityOrder(Head(sorted).severity) < 0
    THEN <<a>> \o sorted
    ELSE <<Head(sorted)>> \o insert(Tail(sorted), a)

RECURSIVE sortBySeverity(_)
sortBySeverity(list) ==
    IF list = <<>> THEN <<>>
    ELSE insert(sortBySeverity(SubSeq(list, 1, Len(list) - 1)), list[Len(list)])

\* products.map(...) followed by the sort
computeAlerts(prods, stk, whs, als) ==
    sortBySeverity([i \in 1..Len(prods) |-> productAlert(prods[i], stk, whs, als)])

NoAlert ==
    [productId |-> Null, acknowledged |-> FALSE,
     acknowledgedAt |-> JNull, acknowledgedBy |-> JNull]

\* res.status(...).json(...) of the alerts handler
AlertsResponse(status, error, message, alert, list) ==
    [status |-> status, error |-> error, message |-> message,
     alert |-> alert, alerts |-> list]
AlertsError(status, error) == AlertsResponse(status, error, "", NoAlert, <<>>)

AlertsIOOutcomes == {"ok", "readFails", "writeFails"}

\* GET: the computed list, or 500 when a data file cannot be read
getAlerts(prods, stk, whs, als, io) ==
    IF io = "readFails"
    THEN AlertsError(500, "Failed to fetch alerts")
    ELSE AlertsResponse(200, "", "", NoAlert, computeAlerts(prods, stk, whs, als))

(***************************************************************************)
(* POST and DELETE /api/alerts                                             *)
(***************************************************************************)
\* a.productId === parseInt(productId): a stored id against a parsed one
SameNumber(a, b) == a.k = "int" /\ b.k = "int" /\ a.v = b.v

AlertsOutcome(r, als) == [res |-> r, alerts |-> als]

\* A check that lets every request through.
MissingProductIdNever(productId) == FALSE

\* !productId
MissingProductId(productId) == Falsy(productId)

\* alerts.findIndex(a => a.productId === parseInt(productId)), 0 for -1
existingAlertIndex(als, productId) ==
    FirstIndex({i \in 1..Len(als) : SameNumber(als[i].productId, parseInt(productId))})

alertData(body, date) ==
    [productId |-> parseInt(body.productId),
     acknowledged |-> TRUE,
     acknowledgedAt |-> JDate(date),
     acknowledgedBy |-> IF Falsy(body.acknowledgedBy)
                        THEN JString(<<"S", "y", "s", "t", "e", "m">>)
                        ELSE body.acknowledgedBy]

\* JSON.stringify of an acknowledgment record
StringifyAlert(a) == [a EXCEPT !.productId = Stringify(@)]

\* An upsert that pushes without looking for an existing record.
upsertAlwaysPush(als, body, date) ==
    Append(als, StringifyAlert(alertData(body, date)))

\* alerts[existingAlertIndex] = alertData, or alerts.push(alertData), as the
\* file then holds it
upsert(als, body, date) ==
    LET i == existingAlertIndex(als, body.productId)
    IN  IF i # 0
        THEN [als EXCEPT ![i] = StringifyAlert(alertData(body, date))]
        ELSE Append(als, StringifyAlert(alertData(body, date)))

\* POST: the response and alerts.json afterwards
acknowledge(als, body, date, io) ==
    IF MissingProductId(body.productId)
    THEN AlertsOutcome(AlertsError(400, "Product ID is required"), als)
    ELSE IF io # "ok"
    THEN AlertsOutcome(AlertsError(500, "Failed to acknowledge alert"), als)
    ELSE AlertsOutcome(
            AlertsResponse(200, "", "Alert acknowledged successfully",
                           StringifyAlert(alertData(body, date)), <<>>),
            upsert(als, body, date))

\* A filter that answers 404 when it removes nothing.
filterAlertsNotFound(als, productId) ==
    LET filteredAlerts ==
            SelectSeq(als, LAMBDA a : ~SameNumber(a.productId, parseInt(productId)))
    IN  IF filteredAlerts = als
        THEN AlertsOutcome(AlertsError(404, "Alert not found"), als)
        ELSE AlertsOutcome(
                AlertsResponse(200, "", "Alert unacknowledged successfully", NoAlert, <<>>),
                filteredAlerts)

\* alerts.filter(a => a.productId !== parseInt(productId)), written and
\* answered 200
filterAlerts(als, productId) ==
    AlertsOutcome(
        AlertsResponse(200, "", "Alert unacknowledged successfully", NoAlert, <<>>),
        SelectSeq(als, LAMBDA a : ~SameNumber(a.productId, parseInt(productId))))

\* DELETE: the response and alerts.json afterwards
unacknowledge(als, query, io) ==
    IF MissingProductId(query.productId)
    THEN AlertsOutcome(AlertsError(400, "Product ID is required"), als)
    ELSE IF io # "ok"
    THEN AlertsOutcome(AlertsError(500, "Failed to unacknowledge alert"), als)
    ELSE filterAlerts(als, query.productId)

(***************************************************************************)
(* The dashboard page (src/src/pages/index.js)                             *)
(***************************************************************************)
\* products.map(...) of Home: the total of each product and its three flags
inventoryOverview(prods, stk) ==
    [i \in 1..Len(prods) |->
        LET total == totalQuantity(stk, prods[i].id)
        IN  [id |-> prods[i].id,
             totalQuantity |-> total,
             isLowStock |-> total < prods[i].reorderPoint,
             isCritical |-> 2 * total < prods[i].reorderPoint,
             isOverstocked |-> total > prods[i].reorderPoint * 3]]

\* inventoryOverview.filter(...).length for the four status cards
criticalStock(overview) ==
    Cardinality({i \in 1..Len(overview) : overview[i].isCritical})

\* The low stock count without the exclusion of the critical items.
lowStockWithCritical(overview) ==
    Cardinality({i \in 1..Len(overview) : overview[i].isLowStock})

lowStock(overview) ==
    Cardinality({i \in 1..Len(overview) :
        overview[i].isLowStock /\ ~overview[i].isCritical})

adequateStock(overview) ==
    Cardinality({i \in 1..Len(overview) :
        ~overview[i].isLowStock /\ ~overview[i].isOverstocked})

overstocked(overview) ==
    Cardinality({i \in 1..Len(overview) : overview[i].isOverstocked})

\* The status column of the export and of the table
exportStatus(item) ==
    IF item.isCritical THEN "Critical"
    ELSE IF item.isLowStock THEN "Low Stock"
    ELSE IF item.isOverstocked THEN "Overstocked"
    ELSE "Adequate"

\* The page once its data is fetched; without data the lists stay empty.
Dashboard(loaded, prods, stk) ==
    LET overview == inventoryOverview(prods, stk)
    IN  [loaded |-> loaded,
         overview |-> overview,
         status |-> [i \in 1..Len(overview) |-> exportStatus(overview[i])],
         criticalStock |-> criticalStock(overview),
         lowStock |-> lowStock(overview),
         adequateStock |-> adequateStock(overview),
         overstocked |-> overstocked(overview)]

NoDashboard == Dashboard(FALSE, <<>>, <<>>)

(***************************************************************************)
(* The keyboard shortcuts (useKeyboardShortcuts)                           *)
(***************************************************************************)
KeyValues ==
    {"h", "H", "p", "w", "s", "t", "a", "k", "e", "E", "Shift",
     "?", "n", "N", "Escape", "x"}
TagNames == {"INPUT", "TEXTAREA", "SELECT", "BODY"}

\* The keydown events: the key, the modifiers held and the element focused.
\* A letter comes in upper case exactly when Shift is held, and the Shift
\* key and "?" come with Shift held.
KeydownEvents ==
    {e \in [key : KeyValues, ctrlKey : BOOLEAN, metaKey : BOOLEAN,
            shiftKey : BOOLEAN, tagName : TagNames] :
        /\ e.key \in {"H", "E", "N", "Shift", "?"} => e.shiftKey
        /\ e.key \in {"h", "p", "w", "s", "t", "a", "k", "e", "n", "x"} => ~e.shiftKey}

NoEvent ==
    [key |-> "", ctrlKey |-> FALSE, metaKey |-> FALSE, shiftKey |-> FALSE,
     tagName |-> ""]

\* String.prototype.toLowerCase on the key values
toLowerCase(key) ==
    CASE key = "H" -> "h"
      [] key = "E" -> "e"
      [] key = "N" -> "n"
      [] key = "Shift" -> "shift"
      [] key = "Escape" -> "escape"
      [] OTHER -> key

CustomHandlerNames == {"showShortcuts", "newItem", "closeModal", "exportCSV", "exportPDF"}
\* the handlers a page passes to the hook: all, those of Home, none
HandlerSets == {CustomHandlerNames, {"showShortcuts", "exportCSV", "exportPDF"}, {}}

\* A list of input elements without SELECT.
isInputFieldNoSelect(tagName) == tagName \in {"INPUT", "TEXTAREA"}

isInputField(tagName) == tagName \in {"INPUT", "TEXTAREA", "SELECT"}

\* What a keydown does: preventDefault, router.push, custom handlers called.
Effect(prevented, pushed, called) ==
    [prevented |-> prevented, pushed |-> pushed, called |-> called]
NoEffect == Effect(FALSE, "", {})

\* customHandlers.name is called if the page passed it
Call(name, customHandlers) ==
    Effect(TRUE, "", IF name \in customHandlers THEN {name} ELSE {})

\* switch (event.key.toLowerCase()) of the shortcuts with Ctrl or Cmd
globalShortcut(event, customHandlers) ==
    LET key == toLowerCase(event.key)
    IN  CASE key = "h" -> Effect(TRUE, "/", {})
          [] key = "p" -> Effect(TRUE, "/products", {})
          [] key = "w" -> Effect(TRUE, "/warehouses", {})
          [] key = "s" -> Effect(TRUE, "/stock", {})
          [] key = "t" -> Effect(TRUE, "/transfers", {})
          [] key = "a" -> Effect(TRUE, "/alerts", {})
          [] key = "k" -> Call("showShortcuts", customHandlers)
          [] key = "e" -> Call("exportCSV", customHandlers)
          [] key = "shift" ->
                IF event.shiftKey /\ event.key = "E"
                THEN Call("exportPDF", customHandlers)
                ELSE NoEffect
          [] OTHER -> NoEffect

\* switch (event.key.toLowerCase()) of the shortcuts without Ctrl or Cmd
otherShortcut(event, customHandlers) ==
    LET key == toLowerCase(event.key)
    IN  CASE key = "?" -> Call("showShortcuts", customHandlers)
          [] key = "n" -> Call("newItem", customHandlers)
          [] key = "escape" -> Call("closeModal", customHandlers)
          [] OTHER -> NoEffect

handleKeyPress(event, customHandlers) ==
    IF isInputField(event.tagName) /\ ~event.ctrlKey /\ ~event.metaKey
    THEN NoEffect
    ELSE IF event.ctrlKey \/ event.metaKey
    THEN globalShortcut(event, customHandlers)
    ELSE IF ~event.ctrlKey /\ ~event.metaKey /\ ~isInputField(event.tagName)
    THEN otherShortcut(event, customHandlers)
    ELSE NoEffect

\* The page after a keydown: router.push changes the path.
Keydown(page, event) ==
    LET effect == handleKeyPress(event, page.handlers)
    IN  [path |-> IF effect.pushed = "" THEN page.path ELSE effect.pushed,
         handlers |-> page.handlers,
         event |-> event,
         prevented |-> effect.prevented,
         pushed |-> effect.pushed,
         called |-> effect.called]

NoKeydown ==
    [path |-> "/", handlers |-> {}, event |-> NoEvent,
     prevented |-> FALSE, pushed |-> "", called |-> {}]

(***************************************************************************)
(* The system: the data files, the clock and the last response.            *)
(***************************************************************************)
Init ==
    /\ stock = << [id |-> 1, productId |-> 1, warehouseId |-> 1, quantity |-> I(2)] >>
    /\ transfers = <<>>
    /\ products = << [id |-> 1, name |-> "Spork", reorderPoint |-> 2] >>
    /\ warehouses = << [id |-> 1, name |-> "Main"], [id |-> 2, name |-> "West"] >>
    /\ alerts = <<>>
    /\ now = 0
    /\ requests = <<>>
    /\ dashboard = NoDashboard
    /\ ui = NoKeydown
    /\ res = NoResponse

\* POST /api/transfers with a body out of bodies
PostTransferOf(bodies) ==
    /\ Len(transfers) < MaxTransfers
    /\ \E body \in bodies :
          \E io \in ReachedOutcomes(body) :
          \E out \in {createTransfer(body, io)} :
              /\ stock' = out.stock
              /\ transfers' = out.transfers
              /\ res' = out.res
    /\ UNCHANGED <<products, warehouses, alerts, now, requests, dashboard, ui>>

PostTransfer == PostTransferOf(Bodies)

Next == PostTransfer

Spec == Init /\ [][Next]_vars

(***************************************************************************)
(* GET /api/alerts over bounded data files.  The classification is drawn   *)
(* over a grid of reorder points and stock totals of one product held in   *)
(* two warehouses, the ordering over lists of products of every status.    *)
(***************************************************************************)
MaxProducts == 3

ReorderPoints == {0, 1, 3, 100}
FirstQuantities == {0, 1, 49, 50, 100}
SecondQuantities == {0, 1, 200, 251}
ListQuantities == {0, 1, 2, 7}

TwoWarehouses == << [id |-> 1, name |-> "Main"], [id |-> 2, name |-> "West"] >>

InitOneProduct ==
    \E rp \in ReorderPoints, q1 \in FirstQuantities, q2 \in SecondQuantities :
        /\ products = << [id |-> 1, name |-> "Spork", reorderPoint |-> rp] >>
        /\ stock = << [id |-> 1, productId |-> 1, warehouseId |-> 1, quantity |-> I(q1)],
                      [id |-> 2, productId |-> 7, warehouseId |-> 1, quantity |-> I(1)],
                      [id |-> 3, productId |-> 1, warehouseId |-> 2, quantity |-> I(q2)] >>

InitProductList ==
    \E n \in 2..MaxProducts :
    \E q \in [1..n -> ListQuantities] :
        /\ products = [i \in 1..n |-> [id |-> i, name |-> "Spork", reorderPoint |-> 2]]
        /\ stock = [i \in 1..n |->
                      [id |-> i, productId |-> i, warehouseId |-> 1, quantity |-> I(q[i])]]

InitGet ==
    /\ InitOneProduct \/ InitProductList
    /\ warehouses = TwoWarehouses
    /\ transfers = <<>>
    /\ alerts = <<>>
    /\ now = 0
    /\ requests = <<>>
    /\ dashboard = NoDashboard
    /\ ui = NoKeydown
    /\ res = AlertsError(0, "")

GetAlerts ==
    /\ \E io \in {"ok", "readFails"} :
          res' = getAlerts(products, stock, warehouses, alerts, io)
    /\ UNCHANGED <<stock, transfers, products, warehouses, alerts, now, requests, dashboard, ui>>

NextGet == GetAlerts
SpecGet == InitGet /\ [][NextGet]_vars

(***************************************************************************)
(* Acknowledging and unacknowledging alerts of two products.               *)
(***************************************************************************)
MaxAlerts == 2
MaxTime == 1

AckProductIdValues == {JUndefined, Num(1), JString(<<"2">>), JString(<<"a", "b", "c">>)}
AcknowledgedByValues == {JUndefined, JString(<<"A", "n", "n">>)}
AckBodies == [productId : AckProductIdValues, acknowledgedBy : AcknowledgedByValues]
\* query parameters are strings
QueryProductIdValues ==
    {JUndefined, JString(<<"1">>), JString(<<"2">>), JString(<<"a", "b", "c">>)}
Queries == [productId : QueryProductIdValues]

InitAck ==
    /\ products = << [id |-> 1, name |-> "Spork", reorderPoint |-> 2],
                     [id |-> 2, name |-> "Ladle", reorderPoint |-> 2] >>
    /\ stock = << [id |-> 1, productId |-> 1, warehouseId |-> 1, quantity |-> I(2)],
                  [id |-> 2, productId |-> 2, warehouseId |-> 2, quantity |-> I(0)] >>
    /\ warehouses = TwoWarehouses
    /\ transfers = <<>>
    /\ alerts = <<>>
    /\ now = 0
    /\ requests = <<>>
    /\ dashboard = NoDashboard
    /\ ui = NoKeydown
    /\ res = AlertsError(0, "")

\* POST /api/alerts; the clock has not gone back since the last request
AcknowledgeOf(bodies) ==
    /\ \E body \in bodies, io \in AlertsIOOutcomes, date \in now..MaxTime :
       \E out \in {acknowledge(alerts, body, date, io)} :
          /\ Len(out.alerts) <= MaxAlerts
          /\ alerts' = out.alerts
          /\ res' = out.res
          /\ now' = date
    /\ UNCHANGED <<stock, transfers, products, warehouses, requests, dashboard, ui>>

Acknowledge == AcknowledgeOf(AckBodies)

\* DELETE /api/alerts
UnacknowledgeOf(queries) ==
    /\ \E query \in queries, io \in AlertsIOOutcomes :
       \E out \in {unacknowledge(alerts, query, io)} :
          /\ alerts' = out.alerts
          /\ res' = out.res
    /\ UNCHANGED <<stock, transfers, products, warehouses, now, requests, dashboard, ui>>

Unacknowledge == UnacknowledgeOf(Queries)

NextAck == Acknowledge \/ Unacknowledge \/ GetAlerts
SpecAck == InitAck /\ [][NextAck]_vars

(***************************************************************************)
(* The five operations of the API together, on a few requests each, with   *)
(* a clock that advances.                                                  *)
(***************************************************************************)
SystemBodies ==
    {body \in Bodies :
        /\ body.productId = JString(<<"1">>)
        /\ body.fromWarehouseId \in {Num(1), Num(2)}
        /\ body.toWarehouseId \in {Num(1), Num(2)}
        /\ body.quantity \in {Num(1), JString(<<"2">>)}}
SystemAckBodies == {body \in AckBodies : body.productId \in {JUndefined, Num(1)}}
SystemQueries == {query \in Queries : query.productId \in {JUndefined, JString(<<"1">>)}}

\* Time passes between two requests.
Tick ==
    /\ now < MaxTime
    /\ now' = now + 1
    /\ UNCHANGED <<stock, transfers, products, warehouses, alerts, requests, res, dashboard, ui>>

\* A handler that keeps the sorted list.
ListTransfersSavesSorted ==
    /\ \E io \in {"ok", "readFails"} :
       \E out \in {listTransfers(transfers, products, warehouses, io)} :
          /\ res' = out
          /\ transfers' = IF out.status = 200
                          THEN [i \in 1..Len(transfers) |->
                                  CHOOSE t \in {transfers[j] : j \in 1..Len(transfers)} :
                                      t.id = out.list[i].id]
                          ELSE transfers
    /\ UNCHANGED <<stock, products, warehouses, alerts, now, requests, dashboard, ui>>

\* GET /api/transfers
ListTransfers ==
    /\ \E io \in {"ok", "readFails"} :
          res' = listTransfers(transfers, products, warehouses, io)
    /\ UNCHANGED <<stock, transfers, products, warehouses, alerts, now, requests, dashboard, ui>>

NextSystem ==
    \/ PostTransferOf(SystemBodies)
    \/ ListTransfers
    \/ GetAlerts
    \/ AcknowledgeOf(SystemAckBodies)
    \/ UnacknowledgeOf(SystemQueries)
    \/ Tick
SpecSystem == Init /\ [][NextSystem]_vars

(***************************************************************************)
(* The dashboard next to GET /api/alerts, over the same data files.        *)
(***************************************************************************)
\* Home fetches products and stock and renders; a failed fetch leaves the
\* page without data.
LoadDashboard ==
    /\ \E fetched \in BOOLEAN :
          dashboard' = IF fetched THEN Dashboard(TRUE, products, stock) ELSE NoDashboard
    /\ UNCHANGED <<stock, transfers, products, warehouses, alerts, now, requests, ui, res>>

NextDashboard == GetAlerts \/ LoadDashboard
SpecDashboard == InitGet /\ [][NextDashboard]_vars

(***************************************************************************)
(* Keydown events on a page that uses the keyboard shortcuts.              *)
(***************************************************************************)
InitKeys ==
    /\ stock = <<>>
    /\ transfers = <<>>
    /\ products = <<>>
    /\ warehouses = <<>>
    /\ alerts = <<>>
    /\ now = 0
    /\ requests = <<>>
    /\ dashboard = NoDashboard
    /\ res = NoResponse
    /\ \E handlers \in HandlerSets : ui = [NoKeydown EXCEPT !.handlers = handlers]

KeyDown ==
    /\ \E event \in KeydownEvents : ui' = Keydown(ui, event)
    /\ UNCHANGED <<stock, transfers, products, warehouses, alerts, now, requests,
                   dashboard, res>>

NextKeys == KeyDown
SpecKeys == InitKeys /\ [][NextKeys]_vars

(***************************************************************************)
(* Several POST /api/transfers requests at the server.  A request is       *)
(* queued when it arrives; its handler is one synchronous function call    *)
(* (readFileSync, writeFileSync, no await), here taken in three steps:     *)
(* the checks and the reads, the write of transfers.json, the write of     *)
(* stock.json.                                                             *)
(***************************************************************************)
MaxRequests == 2

ConcurrentQuantities == {Num(1), JString(<<"2">>), JString(<<"-", "1", "a">>)}
ConcurrentBodies ==
    {body \in Bodies :
        /\ body.productId = JString(<<"1">>)
        /\ body.fromWarehouseId = Num(1)
        /\ body.toWarehouseId = Num(2)
        /\ body.quantity \in ConcurrentQuantities}

Request(body, pc, stk, trs, date) ==
    [body |-> body, pc |-> pc, stock |-> stk, transfers |-> trs, date |-> date]

\* The handler of request i is between its first read and its return.
Running(i) == requests[i].pc \in {"read", "savedTransfers"}

\* Node takes the next request from the queue when the call stack is empty.
CallStackEmpty == \A i \in 1..Len(requests) : ~Running(i)

Arrive ==
    /\ Len(requests) < MaxRequests
    /\ \E body \in ConcurrentBodies :
          requests' = Append(requests, Request(body, "queued", <<>>, <<>>, 0))
    /\ UNCHANGED <<stock, transfers, products, warehouses, alerts, now, res, dashboard, ui>>

\* The handler is called: the checks on the body, the reads, the checks
\* against the data read.
Begin(i) ==
    /\ requests[i].pc = "queued"
    /\ CallStackEmpty
    /\ \E io \in {"ok", "readFails"} :
          LET body == requests[i].body
              early == IF validation(body) # NoResponse
                       THEN validation(body) ELSE verification(body, io)
          IN  IF early # NoResponse
              THEN /\ requests' = [requests EXCEPT ![i].pc = "done"]
                   /\ res' = early
              ELSE /\ requests' = [requests EXCEPT
                                     ![i] = Request(body, "read", stock, transfers, now)]
                   /\ UNCHANGED res
    /\ UNCHANGED <<stock, transfers, products, warehouses, alerts, now, dashboard, ui>>

\* writeJSONFile('transfers.json', transfers), from the data the handler read
SaveTransfers(i) ==
    /\ requests[i].pc = "read"
    /\ LET r == requests[i]
           transfer == newTransfer(r.transfers, r.body, r.date)
       IN  \/ /\ transfers' = writeTransfers(Append(r.transfers, transfer))
              /\ requests' = [requests EXCEPT ![i].pc = "savedTransfers"]
              /\ UNCHANGED res
           \/ /\ requests' = [requests EXCEPT ![i].pc = "done"]
              /\ res' = Response(500, "Failed to create transfer")
              /\ UNCHANGED transfers
    /\ UNCHANGED <<stock, products, warehouses, alerts, now, dashboard, ui>>

\* writeJSONFile('stock.json', stock) and the response
SaveStock(i) ==
    /\ requests[i].pc = "savedTransfers"
    /\ LET r == requests[i]
           sourceStock == findStock(r.stock, r.body.productId, r.body.fromWarehouseId)
           updated == increaseDest(decreaseSource(r.stock, sourceStock, r.body.quantity),
                                   r.body)
           transfer == newTransfer(r.transfers, r.body, r.date)
       IN  \/ /\ stock' = writeStock(updated)
              /\ res' = Created([transfer EXCEPT !.quantity = Stringify(@)])
           \/ /\ res' = Response(500, "Failed to create transfer")
              /\ UNCHANGED stock
    /\ requests' = [requests EXCEPT ![i].pc = "done"]
    /\ UNCHANGED <<transfers, products, warehouses, alerts, now, dashboard, ui>>

NextConcurrent ==
    \/ Arrive
    \/ \E i \in 1..Len(requests) : Begin(i)
    \/ \E i \in 1..Len(requests) : SaveTransfers(i)
    \/ \E i \in 1..Len(requests) : SaveStock(i)
SpecConcurrent == Init /\ [][NextConcurrent]_vars

(***************************************************************************)
(* Vocabulary of the properties.                                           *)
(***************************************************************************)
\* A request can be handled in this state (the bound on the audit trail).
Accepting == Len(transfers) < MaxTransfers

ProductIds == {products[i].id : i \in 1..Len(products)}

\* The stock entry of a (product, warehouse) pair, 0 if there is none.
EntryOf(stk, productId, warehouseId) ==
    FirstIndex({i \in 1..Len(stk) :
        stk[i].productId = productId /\ stk[i].warehouseId = warehouseId})

\* A request value that denotes a positive integer: such a number, or its
\* decimal digits in a string.
PositiveInteger(v) ==
    \/ v.t = "number" /\ v.n > 0 /\ v.n % 2 = 0
    \/ /\ v.t = "string"
       /\ v.s # <<>>
       /\ DigitPrefix(v.s) = v.s
       /\ ~AllZero(v.s)

\* Twice the number a numeric request value denotes.
TwiceValue(v) == IF v.t = "number" THEN v.n ELSE 2 * DigitsValue(v.s, 0)
Numeric(v) == v.t = "number" \/ (v.t = "string" /\ v.s # <<>> /\ DigitPrefix(v.s) = v.s)

SameWarehouseError == Response(400, "Source and destination warehouses must be different")
InvalidQuantityError == Response(400, "Quantity must be greater than 0")

\* C1: every transfer answered 201 leaves the total stock of every product,
\* summed over the warehouses, as it was before the request.
C1_Conservation ==
    [][res'.status = 201 =>
          \A p \in ProductIds : totalQuantity(stock', p) = totalQuantity(stock, p)]_vars

\* C2: a transfer answered 201 leaves the source entry at its quantity before
\* minus the transferred quantity, and every stock quantity is always an
\* integer >= 0.
C2_SourceDecrementNonNegative ==
    /\ [](\A i \in 1..Len(stock) :
            stock[i].quantity.k = "int" /\ stock[i].quantity.v >= 0)
    /\ [][res'.status = 201 =>
            LET t == res'.transfer
                src == EntryOf(stock, t.productId, t.fromWarehouseId)
            IN  /\ src # 0
                /\ t.quantity.k = "int"
                /\ stock'[src].quantity = I(ToInt(stock[src].quantity) - t.quantity.v)]_vars

\* C3 as stated: a request whose fromWarehouseId equals its toWarehouseId is
\* answered with the same-warehouse error whatever the other fields are,
\* present or not.
C3_SameWarehouseRegardless ==
    Accepting =>
        \A b \in Bodies, notes \in AnyNotes, io \in IOOutcomes :
            LET body == [b EXCEPT !.notes = notes]
            IN  StrictEquals(body.fromWarehouseId, body.toWarehouseId)
                    => createTransfer(body, io).res = SameWarehouseError

\* C3 amended: a request whose four required fields are all present (truthy)
\* and whose fromWarehouseId is identical to its toWarehouseId is answered
\* with the same-warehouse error, whatever productId, quantity and notes
\* are, and writes nothing.
C3_SameWarehouse ==
    Accepting =>
        \A b \in Bodies, notes \in AnyNotes, io \in IOOutcomes :
            LET body == [b EXCEPT !.notes = notes]
            IN  /\ ~Falsy(body.productId)
                /\ ~Falsy(body.fromWarehouseId)
                /\ ~Falsy(body.toWarehouseId)
                /\ ~Falsy(body.quantity)
                /\ StrictEquals(body.fromWarehouseId, body.toWarehouseId)
                => createTransfer(body, io) = Outcome(SameWarehouseError, stock, transfers)

\* A same-warehouse request was refused after a transfer had been made.
C3_Witness == res = SameWarehouseError /\ Len(transfers) = 1

\* C4: every persisted transfer record has different source and destination
\* warehouses.
C4_DistinctWarehouses ==
    \A i \in 1..Len(transfers) :
        transfers[i].fromWarehouseId # transfers[i].toWarehouseId

\* C5: a request whose quantity is not a positive integer is refused with the
\* invalid-quantity error and changes nothing, so every persisted transfer
\* record has an integer quantity > 0.
C5_PositiveIntegerQuantity ==
    /\ \A i \in 1..Len(transfers) :
            transfers[i].quantity.k = "int" /\ transfers[i].quantity.v > 0
    /\ Accepting =>
            \A body \in Bodies :
                /\ ~MissingRequiredFields(body)
                /\ ~SameWarehouse(body)
                /\ ~PositiveInteger(body.quantity)
                => createTransfer(body, "ok") = Outcome(InvalidQuantityError, stock, transfers)

\* C6: a request for more than the available source stock (the quantity of
\* the source entry, 0 without one) is answered 400 with the source
\* warehouse name, the available amount and the requested amount.  Stated
\* for requests that pass every earlier check.
C6_InsufficientStock ==
    Accepting =>
        \A body \in Bodies :
            /\ validation(body) = NoResponse
            /\ Numeric(body.quantity)
            /\ findProduct(body.productId) # 0
            /\ findWarehouse(body.fromWarehouseId) # 0
            /\ findWarehouse(body.toWarehouseId) # 0
            => LET src == findStock(stock, body.productId, body.fromWarehouseId)
                   available == IF src = 0 THEN 0 ELSE ToInt(stock[src].quantity)
               IN  TwiceValue(body.quantity) > 2 * available
                   => createTransfer(body, "ok").res =
                        InsufficientStockResponse(
                            warehouses[findWarehouse(body.fromWarehouseId)].name,
                            I(available), body.quantity)

\* The response the six checks give when made in their order, check (3)
\* being that the quantity is a positive integer; NoResponse when all pass.
FirstFailingCheck(body) ==
    LET src == findStock(stock, body.productId, body.fromWarehouseId)
    IN  IF MissingRequiredFields(body) THEN <<400, "Missing required fields">>
        ELSE IF SameWarehouse(body) THEN <<400, SameWarehouseError.error>>
        ELSE IF ~PositiveInteger(body.quantity) THEN <<400, InvalidQuantityError.error>>
        ELSE IF findProduct(body.productId) = 0 THEN <<404, "Product not found">>
        ELSE IF findWarehouse(body.fromWarehouseId) = 0 \/ findWarehouse(body.toWarehouseId) = 0
        THEN <<404, "Warehouse not found">>
        ELSE IF src = 0 \/ 2 * ToInt(stock[src].quantity) < TwiceValue(body.quantity)
        THEN <<400, "Insufficient stock">>
        ELSE <<201, "">>

\* C7: the checks are made in the order missing field, same warehouse,
\* invalid quantity, unknown product, unknown warehouse, insufficient stock,
\* and the first one that fails alone determines the response.
C7_ValidationOrder ==
    Accepting =>
        \A body \in Bodies :
            LET r == createTransfer(body, "ok").res
            IN  <<r.status, r.error>> = FirstFailingCheck(body)

\* C8: a request answered 400 or 404 leaves stock.json and transfers.json
\* as they were.
C8_RejectionWritesNothing ==
    [][res'.status \in {400, 404} => stock' = stock /\ transfers' = transfers]_vars

\* A request was refused for insufficient stock at the last check, after a
\* transfer had moved stock.
C8_Witness ==
    /\ res.status = 400
    /\ res.error = "Insufficient stock"
    /\ res.available = I(1)
    /\ Len(transfers) = 1
    /\ Len(stock) = 2

\* C9: a request answered 500 leaves stock.json and transfers.json as they
\* were: no transfer record is persisted without its stock movement.
C9_AtomicPersistence ==
    [][res'.status = 500 => stock' = stock /\ transfers' = transfers]_vars

UniqueStock ==
    \A i, j \in 1..Len(stock) :
        i # j =>
            /\ stock[i].id # stock[j].id
            /\ <<stock[i].productId, stock[i].warehouseId>>
                 # <<stock[j].productId, stock[j].warehouseId>>

NoStockDeleted ==
    /\ Len(stock') >= Len(stock)
    /\ \A i \in 1..Len(stock) :
          /\ stock'[i].id = stock[i].id
          /\ stock'[i].productId = stock[i].productId
          /\ stock'[i].warehouseId = stock[i].warehouseId

\* C10: stock.json always has at most one entry per (productId, warehouseId)
\* pair and unique ids, and no request removes an entry.
C10_UniqueStockEntries == []UniqueStock /\ [][NoStockDeleted]_vars

\* Two transfers were made, the first created the destination entry, and an
\* entry emptied by the second is still there.
C10_Witness ==
    /\ Len(transfers) = 2
    /\ Len(stock) = 2
    /\ res.status = 201
    /\ \E i \in 1..Len(stock) : stock[i].quantity = I(0)


\* The number a request value denotes is the recorded integer n.
Denotes(v, n) == Numeric(v) /\ TwiceValue(v) = 2 * n

\* C11: every transfer answered 201 adds exactly one record, with status
\* 'completed' and the requested product, warehouses and quantity, after the
\* records persisted before, and no step changes or removes a persisted
\* record.
C11_AppendOnlyAuditTrail ==
    /\ [][/\ Len(transfers') >= Len(transfers)
          /\ SubSeq(transfers', 1, Len(transfers)) = transfers]_vars
    /\ [](Accepting =>
            \A body \in Bodies :
                LET out == createTransfer(body, "ok")
                    t == out.res.transfer
                IN  out.res.status = 201 =>
                        /\ out.transfers = Append(transfers, t)
                        /\ t.status = "completed"
                        /\ Denotes(body.productId, t.productId)
                        /\ Denotes(body.fromWarehouseId, t.fromWarehouseId)
                        /\ Denotes(body.toWarehouseId, t.toWarehouseId)
                        /\ t.quantity.k = "int"
                        /\ Denotes(body.quantity, t.quantity.v))


(***************************************************************************)
(* Properties of GET /api/alerts                                           *)
(***************************************************************************)
RECURSIVE SumOver(_, _)
SumOver(S, stk) ==
    IF S = {} THEN 0
    ELSE LET i == CHOOSE j \in S : TRUE
         IN  stk[i].quantity.v + SumOver(S \ {i}, stk)

\* The stock of a product added up over its entries in every warehouse.
StockTotal(productId) ==
    SumOver({i \in 1..Len(stock) : stock[i].productId = productId}, stock)

ProductAt(productId) == FirstIndex({i \in 1..Len(products) : products[i].id = productId})

Listed == res.status = 200 /\ res.message = ""

\* The list answers every product exactly once.
OneAlertPerProduct ==
    /\ Len(res.alerts) = Len(products)
    /\ \A i \in 1..Len(products) :
          \E j \in 1..Len(res.alerts) : res.alerts[j].productId = products[i].id

TabulatedStatus(total, reorderPoint) ==
    CASE 2 * total < reorderPoint -> "critical"
      [] reorderPoint <= 2 * total /\ total < reorderPoint -> "low"
      [] total >= reorderPoint /\ total > 3 * reorderPoint -> "overstocked"
      [] OTHER -> "adequate"

\* C12: every product is classified by its total stock across warehouses:
\* total < 0.5*reorderPoint critical, 0.5*reorderPoint <= total < reorderPoint
\* low, total > 3*reorderPoint overstocked, otherwise adequate; with reorder
\* point 100, 49 is critical, 50 low, 100 and 300 adequate, 301 overstocked.
C12_ClassificationBoundaries ==
    Listed =>
        /\ OneAlertPerProduct
        /\ \A j \in 1..Len(res.alerts) :
              LET a == res.alerts[j]
                  rp == products[ProductAt(a.productId)].reorderPoint
                  total == StockTotal(a.productId)
              IN  /\ a.currentStock = total
                  /\ a.status = TabulatedStatus(total, rp)
                  /\ rp = 100 /\ total = 49 => a.status = "critical"
                  /\ rp = 100 /\ total = 50 => a.status = "low"
                  /\ rp = 100 /\ total = 100 => a.status = "adequate"
                  /\ rp = 100 /\ total = 300 => a.status = "adequate"
                  /\ rp = 100 /\ total = 301 => a.status = "overstocked"

C12_Witness ==
    /\ Listed
    /\ res.alerts[1].reorderPoint = 100
    /\ StockTotal(1) = 300
    /\ res.alerts[1].status = "adequate"
    /\ Len(stock) = 3 /\ stock[1].quantity.v > 0 /\ stock[3].quantity.v > 0

\* n is the least integer not below twice / 2
IsCeilOfHalf(n, twice) == 2 * n >= twice /\ 2 * (n - 1) < twice

\* C13: reorderQuantity is ceil(2*reorderPoint - total) for a critical
\* product, ceil(1.5*reorderPoint - total) for a low one and 0 for an
\* overstocked or adequate one; it is an integer >= 0, and > 0 exactly for
\* the critical and the low products.
C13_ReorderQuantity ==
    Listed =>
        \A j \in 1..Len(res.alerts) :
            LET a == res.alerts[j]
                rp == products[ProductAt(a.productId)].reorderPoint
                total == StockTotal(a.productId)
            IN  /\ a.status = "critical" => IsCeilOfHalf(a.reorderQuantity, 4 * rp - 2 * total)
                /\ a.status = "low" => IsCeilOfHalf(a.reorderQuantity, 3 * rp - 2 * total)
                /\ a.status \in {"overstocked", "adequate"} => a.reorderQuantity = 0
                /\ a.reorderQuantity \in Nat
                /\ a.reorderQuantity > 0 <=> a.status \in {"critical", "low"}

\* a low product whose 1.5*reorderPoint - total is not an integer
C13_Witness ==
    /\ Listed
    /\ res.alerts[1].status = "low"
    /\ res.alerts[1].reorderPoint = 3
    /\ res.alerts[1].currentStock = 2
    /\ res.alerts[1].reorderQuantity = 3

\* C14 as stated: critical has severity critical and action "Immediate
\* reorder required", low has high and "Reorder recommended", overstocked
\* has medium and "Consider redistribution or promotion", adequate has low
\* and "No action needed".
C14_TabulatedActions ==
    Listed =>
        \A j \in 1..Len(res.alerts) :
            LET a == res.alerts[j]
            IN  <<a.severity, a.recommendedAction>> =
                    CASE a.status = "critical" -> <<"critical", "Immediate reorder required">>
                      [] a.status = "low" -> <<"high", "Reorder recommended">>
                      [] a.status = "overstocked" ->
                            <<"medium", "Consider redistribution or promotion">>
                      [] OTHER -> <<"low", "No action needed">>

\* C14: critical has severity critical and action "URGENT: Immediate reorder
\* required", low has high and "Reorder recommended", overstocked has medium
\* and "Consider redistribution or promotion", adequate has low and "Stock
\* levels healthy".
C14_SeverityAndAction ==
    Listed =>
        \A j \in 1..Len(res.alerts) :
            LET a == res.alerts[j]
            IN  /\ a.status \in {"critical", "low", "overstocked", "adequate"}
                /\ <<a.severity, a.recommendedAction>> =
                    CASE a.status = "critical" ->
                            <<"critical", "URGENT: Immediate reorder required">>
                      [] a.status = "low" -> <<"high", "Reorder recommended">>
                      [] a.status = "overstocked" ->
                            <<"medium", "Consider redistribution or promotion">>
                      [] OTHER -> <<"low", "Stock levels healthy">>

\* a list with a critical and an adequate product
C14_Witness ==
    /\ Listed
    /\ \E i, j \in 1..Len(res.alerts) :
          /\ res.alerts[i].status = "critical"
          /\ res.alerts[j].status = "adequate"

Rank(severity) ==
    CASE severity = "critical" -> 0
      [] severity = "high" -> 1
      [] severity = "medium" -> 2
      [] severity = "low" -> 3

\* C15: the list is in ascending order of severity rank (critical 0, high 1,
\* medium 2, low 3), and alerts of equal severity are in the order of their
\* products in the product collection.
C15_SortedBySeverity ==
    Listed =>
        /\ OneAlertPerProduct
        /\ \A i, j \in 1..Len(res.alerts) :
              i < j =>
                 /\ Rank(res.alerts[i].severity) <= Rank(res.alerts[j].severity)
                 /\ res.alerts[i].severity = res.alerts[j].severity =>
                        ProductAt(res.alerts[i].productId) < ProductAt(res.alerts[j].productId)

\* three products, the last one first in the list, the other two tied
C15_Witness ==
    /\ Listed
    /\ Len(res.alerts) = 3
    /\ res.alerts[1].productId = 3
    /\ res.alerts[2].productId = 1
    /\ res.alerts[3].productId = 2
    /\ res.alerts[2].severity = res.alerts[3].severity


\* What the alert list reports of a product's classification.
Reported(list, productId) ==
    LET j == FirstIndex({i \in 1..Len(list) : list[i].productId = productId})
    IN  <<list[j].status, list[j].severity, list[j].reorderQuantity>>

\* C16: the status, severity and reorderQuantity that the alert list reports
\* of every product are the same after a transfer answered 201 as before it.
C16_ClassificationUnderTransfers ==
    [][res'.status = 201 =>
          \A p \in ProductIds :
              Reported(computeAlerts(products, stock', warehouses, alerts), p)
                  = Reported(computeAlerts(products, stock, warehouses, alerts), p)]_vars


(***************************************************************************)
(* Properties of POST and DELETE /api/alerts                               *)
(***************************************************************************)
\* The alert of a product in the list GET computes from alerts.json = als.
AlertOf(als, productId) ==
    LET list == computeAlerts(products, stock, warehouses, als)
    IN  list[FirstIndex({j \in 1..Len(list) : list[j].productId = productId})]

Author(body) ==
    IF body.acknowledgedBy.t = "undefined"
    THEN JString(<<"S", "y", "s", "t", "e", "m">>)
    ELSE body.acknowledgedBy

\* C17: for every existing product P, after acknowledge(P) the list computed
\* next shows P acknowledged with the recorded timestamp and author, and
\* after unacknowledge(P) it shows P unacknowledged with null timestamp and
\* author.
C17_AcknowledgeRoundTrip ==
    \A p \in ProductIds :
        /\ \A body \in AckBodies, date \in now..MaxTime :
              Denotes(body.productId, p) =>
                 LET out == acknowledge(alerts, body, date, "ok")
                     a == AlertOf(out.alerts, p)
                 IN  /\ out.res.status = 200
                     /\ a.acknowledged = TRUE
                     /\ a.acknowledgedAt = JDate(date)
                     /\ a.acknowledgedAt = out.res.alert.acknowledgedAt
                     /\ a.acknowledgedBy = Author(body)
                     /\ a.acknowledgedBy = out.res.alert.acknowledgedBy
        /\ \A query \in Queries :
              Denotes(query.productId, p) =>
                 LET out == unacknowledge(alerts, query, "ok")
                     a == AlertOf(out.alerts, p)
                 IN  /\ out.res.status = 200
                     /\ a.acknowledged = FALSE
                     /\ a.acknowledgedAt = JNull
                     /\ a.acknowledgedBy = JNull

\* a list computed after products 1 and 2 were acknowledged
C17_Witness ==
    /\ Listed
    /\ \E j \in 1..Len(res.alerts) :
          /\ res.alerts[j].productId = 2
          /\ res.alerts[j].acknowledged
          /\ res.alerts[j].acknowledgedAt = JDate(1)
          /\ res.alerts[j].acknowledgedBy = JString(<<"A", "n", "n">>)
    /\ \E i \in 1..Len(alerts) : alerts[i].productId = I(1)

Unacknowledged == "Alert unacknowledged successfully"

\* C18: a second unacknowledge of the same product leaves the collection as
\* the first left it, without a record of the product; both are answered
\* 200, also when the product had no record.
C18_UnacknowledgeIdempotent ==
    \A query \in Queries :
        query.productId.t # "undefined" =>
            LET first == unacknowledge(alerts, query, "ok")
                second == unacknowledge(first.alerts, query, "ok")
            IN  /\ first.res.status = 200 /\ first.res.message = Unacknowledged
                /\ second.res.status = 200 /\ second.res.message = Unacknowledged
                /\ second.alerts = first.alerts
                /\ \A n \in 0..9 :
                      Denotes(query.productId, n) =>
                          \A i \in 1..Len(first.alerts) : first.alerts[i].productId # I(n)

\* an unacknowledge answered 200 that left a record of another product
C18_Witness ==
    /\ res.status = 200
    /\ res.message = Unacknowledged
    /\ Len(alerts) = 1
    /\ alerts[1].productId = I(2)

\* C19: the collection never holds two records with the same productId, and
\* every record in it has acknowledged = true.
C19_UniqueAcknowledgments ==
    /\ \A i, j \in 1..Len(alerts) : i # j => alerts[i].productId # alerts[j].productId
    /\ \A i \in 1..Len(alerts) : alerts[i].acknowledged = TRUE

\* C20: an acknowledge or unacknowledge request without a productId is
\* answered 400 and leaves the collection as it was.
C20_MissingProductId ==
    /\ [](\A body \in AckBodies, date \in now..MaxTime, io \in AlertsIOOutcomes :
            body.productId.t = "undefined" =>
                LET out == acknowledge(alerts, body, date, io)
                IN  out.res.status = 400 /\ out.res.error # "" /\ out.alerts = alerts)
    /\ [](\A query \in Queries, io \in AlertsIOOutcomes :
            query.productId.t = "undefined" =>
                LET out == unacknowledge(alerts, query, io)
                IN  out.res.status = 400 /\ out.res.error # "" /\ out.alerts = alerts)
    /\ [][res'.status = 400 => alerts' = alerts]_vars

\* a request answered 400 while the collection holds a record
C20_Witness ==
    /\ res = AlertsError(400, "Product ID is required")
    /\ alerts # <<>>


(***************************************************************************)
(* Properties of concurrent requests                                       *)
(***************************************************************************)
\* A step that changes a data file while the handler of request i runs is a
\* step of that handler.
NotInterleaved ==
    \A i \in 1..Len(requests) :
        Running(i) /\ (stock' # stock \/ transfers' # transfers) =>
            requests'[i].pc # requests[i].pc

\* What a running handler read is what the files hold.
NoStaleRead ==
    \A i \in 1..Len(requests) :
        /\ requests[i].pc = "read" =>
              requests[i].stock = stock /\ requests[i].transfers = transfers
        /\ requests[i].pc = "savedTransfers" => requests[i].stock = stock

\* C21: no write of another request falls between the read and the write of
\* a request, no request writes from a stale read, and no stock quantity
\* becomes negative.
C21_NonInterleavedRequests ==
    /\ [][NotInterleaved]_vars
    /\ []NoStaleRead
    /\ [](\A i \in 1..Len(stock) :
            stock[i].quantity.k = "int" /\ stock[i].quantity.v >= 0)


(***************************************************************************)
(* Properties of the operations together                                   *)
(***************************************************************************)
\* Which operation a response comes from.
FromCreateTransfer(r) == "transfer" \in DOMAIN r /\ r.status # 0
FromListTransfers(r) == "list" \in DOMAIN r
FromComputeAlerts(r) ==
    /\ "alerts" \in DOMAIN r
    /\ \/ r.status = 200 /\ r.message = ""
       \/ r.error = "Failed to fetch alerts"
FromAcknowledgment(r) ==
    /\ "alerts" \in DOMAIN r
    /\ \/ r.message \in {"Alert acknowledged successfully", Unacknowledged}
       \/ r.error \in {"Product ID is required", "Failed to acknowledge alert",
                       "Failed to unacknowledge alert"}

\* C22: createTransfer changes only stock and transfers, acknowledge and
\* unacknowledge change only the acknowledgments, and the two GET operations
\* change no collection.
C22_WritesOwnCollections ==
    [][/\ FromCreateTransfer(res') => UNCHANGED <<products, warehouses, alerts>>
       /\ FromAcknowledgment(res') => UNCHANGED <<stock, transfers, products, warehouses>>
       /\ FromListTransfers(res') \/ FromComputeAlerts(res') =>
             UNCHANGED <<stock, transfers, products, warehouses, alerts>>
       /\ FromCreateTransfer(res') \/ FromAcknowledgment(res')
             \/ FromListTransfers(res') \/ FromComputeAlerts(res') \/ res' = res]_vars

\* two transfers and an acknowledgment are persisted, and the transfers
\* were listed
C22_Witness ==
    /\ FromListTransfers(res)
    /\ res.status = 200
    /\ Len(res.list) = 2
    /\ res.list[1].date > res.list[2].date
    /\ Len(transfers) = 2
    /\ alerts # <<>>


TransfersListed == FromListTransfers(res) /\ res.status = 200

\* C26: the list holds every persisted transfer exactly once, no record
\* comes before a record with a later date, and when the transfers were
\* created at increasing times the one created last is first.
C26_ListNewestFirst ==
    TransfersListed =>
        /\ Len(res.list) = Len(transfers)
        /\ \A i \in 1..Len(transfers) :
              Cardinality({j \in 1..Len(res.list) :
                    /\ res.list[j].id = transfers[i].id
                    /\ res.list[j].date = transfers[i].date
                    /\ res.list[j].quantity = transfers[i].quantity}) = 1
        /\ \A i, j \in 1..Len(res.list) :
              i < j => res.list[i].date >= res.list[j].date
        /\ (/\ transfers # <<>>
            /\ \A i, j \in 1..Len(transfers) : i < j => transfers[i].date < transfers[j].date)
              => res.list[1].id = transfers[Len(transfers)].id

\* two transfers created at different times are listed, the second first
C26_Witness ==
    /\ TransfersListed
    /\ Len(transfers) = 2
    /\ transfers[1].date < transfers[2].date
    /\ res.list[1].id = transfers[2].id
    /\ res.list[2].id = transfers[1].id


(***************************************************************************)
(* Further properties of POST /api/transfers                               *)
(***************************************************************************)
\* C23: a transfer of quantity q answered 201 adds q to the destination
\* entry when there is one, adding no entry, and otherwise adds exactly one
\* entry for the pair with quantity q and the largest id so far + 1; no
\* entry other than the source and the destination is changed.
C23_DestinationIncrement ==
    Accepting =>
        \A body \in Bodies :
            LET out == createTransfer(body, "ok")
                t == out.res.transfer
                src == EntryOf(stock, t.productId, t.fromWarehouseId)
                dst == EntryOf(stock, t.productId, t.toWarehouseId)
                new == Len(stock) + 1
            IN  out.res.status = 201 =>
                   /\ Numeric(body.quantity)
                   /\ IF dst # 0
                      THEN /\ Len(out.stock) = Len(stock)
                           /\ out.stock[dst].quantity.k = "int"
                           /\ 2 * out.stock[dst].quantity.v
                                 = 2 * stock[dst].quantity.v + TwiceValue(body.quantity)
                      ELSE /\ Len(out.stock) = new
                           /\ out.stock[new].productId = t.productId
                           /\ out.stock[new].warehouseId = t.toWarehouseId
                           /\ out.stock[new].quantity.k = "int"
                           /\ 2 * out.stock[new].quantity.v = TwiceValue(body.quantity)
                           /\ out.stock[new].id = Max({stock[i].id : i \in 1..Len(stock)}) + 1
                           /\ \A i \in 1..Len(stock) : stock[i].id # out.stock[new].id
                   /\ \A i \in 1..Len(stock) :
                         i \notin {src, dst} => out.stock[i] = stock[i]


\* C24: a new transfer record gets the largest id so far + 1 (1 in an empty
\* collection); no two records share an id, and a record created later has
\* a larger id than every earlier one.
C24_TransferIds ==
    /\ [](\A i, j \in 1..Len(transfers) : i < j => transfers[i].id < transfers[j].id)
    /\ [][Len(transfers') > Len(transfers) =>
            /\ Len(transfers') = Len(transfers) + 1
            /\ transfers'[Len(transfers')].id =
                  IF transfers = <<>> THEN 1
                  ELSE Max({transfers[i].id : i \in 1..Len(transfers)}) + 1]_vars

C24_Witness ==
    /\ Len(transfers) = 2
    /\ transfers[1].id = 1
    /\ transfers[2].id = 2
    /\ res.status = 201


(***************************************************************************)
(* Further properties of POST /api/alerts                                  *)
(***************************************************************************)
\* C25: after acknowledge(P, by) the collection holds exactly one record for
\* P, with acknowledged = true, the current timestamp and the author by
\* ("System" without one); a prior record for P is overwritten in place, and
\* the records of the other productIds are unchanged.
C25_AcknowledgeUpserts ==
    \A body \in AckBodies, date \in now..MaxTime :
        body.productId.t # "undefined" =>
            LET out == acknowledge(alerts, body, date, "ok")
                P == out.res.alert.productId
                prior == {i \in 1..Len(alerts) : alerts[i].productId = P}
                after == {i \in 1..Len(out.alerts) : out.alerts[i].productId = P}
            IN  /\ out.res.status = 200
                /\ Cardinality(after) = 1
                /\ \A i \in after :
                      /\ out.alerts[i].acknowledged = TRUE
                      /\ out.alerts[i].acknowledgedAt = JDate(date)
                      /\ out.alerts[i].acknowledgedBy = Author(body)
                /\ prior # {} => after = prior /\ Len(out.alerts) = Len(alerts)
                /\ \A i \in 1..Len(alerts) :
                      i \notin prior => out.alerts[i] = alerts[i]


(***************************************************************************)
(* Further properties of GET /api/alerts                                   *)
(***************************************************************************)
\* C27: a product with reorderPoint 0 is overstocked when its total stock is
\* above 0 and adequate when it is 0, never critical or low.
C27_ZeroReorderPoint ==
    Listed =>
        \A j \in 1..Len(res.alerts) :
            LET a == res.alerts[j]
                total == StockTotal(a.productId)
            IN  products[ProductAt(a.productId)].reorderPoint = 0 =>
                   /\ total > 0 => a.status = "overstocked"
                   /\ total = 0 => a.status = "adequate"
                   /\ a.status \notin {"critical", "low"}

\* a product with reorderPoint 0 and one unit in stock, listed
C27_Witness ==
    /\ Listed
    /\ Len(products) = 1
    /\ products[1].reorderPoint = 0
    /\ StockTotal(1) = 1
    /\ res.alerts[1].status = "overstocked"


(***************************************************************************)
(* Properties of the dashboard                                             *)
(***************************************************************************)
\* The status GET /api/alerts answered for a product.
ListedStatus(productId) ==
    res.alerts[FirstIndex({j \in 1..Len(res.alerts) :
                    res.alerts[j].productId = productId})].status

DashboardLabel(status) ==
    CASE status = "critical" -> "Critical"
      [] status = "low" -> "Low Stock"
      [] status = "overstocked" -> "Overstocked"
      [] status = "adequate" -> "Adequate"

ListedCount(status) ==
    Cardinality({i \in 1..Len(products) : ListedStatus(products[i].id) = status})

\* C28: the dashboard gives every product the status the alerts API gives
\* it, and its four counts are the numbers of products of each status, which
\* add up to the number of products.
C28_DashboardAgreesWithAlerts ==
    dashboard.loaded /\ Listed =>
        /\ Len(dashboard.status) = Len(products)
        /\ \A i \in 1..Len(products) :
              dashboard.status[i] = DashboardLabel(ListedStatus(products[i].id))
        /\ dashboard.criticalStock = ListedCount("critical")
        /\ dashboard.lowStock = ListedCount("low")
        /\ dashboard.adequateStock = ListedCount("adequate")
        /\ dashboard.overstocked = ListedCount("overstocked")
        /\ dashboard.criticalStock + dashboard.lowStock + dashboard.adequateStock
              + dashboard.overstocked = Len(products)

\* three products, one critical, one low and one overstocked, on both pages
C28_Witness ==
    /\ dashboard.loaded
    /\ Listed
    /\ Len(products) = 3
    /\ dashboard.criticalStock = 1
    /\ dashboard.lowStock = 1
    /\ dashboard.overstocked = 1


(***************************************************************************)
(* Properties of the keyboard shortcuts                                    *)
(***************************************************************************)
KeyPressed == ui.event # NoEvent
CtrlOrCmd == ui.event.ctrlKey \/ ui.event.metaKey

\* The action KEYBOARD_SHORTCUTS describes for the last keydown, when it is
\* one of the listed shortcuts.
Described ==
    CASE CtrlOrCmd /\ ~ui.event.shiftKey /\ ui.event.key = "h" -> Effect(TRUE, "/", {})
      [] CtrlOrCmd /\ ~ui.event.shiftKey /\ ui.event.key = "p" -> Effect(TRUE, "/products", {})
      [] CtrlOrCmd /\ ~ui.event.shiftKey /\ ui.event.key = "w" -> Effect(TRUE, "/warehouses", {})
      [] CtrlOrCmd /\ ~ui.event.shiftKey /\ ui.event.key = "s" -> Effect(TRUE, "/stock", {})
      [] CtrlOrCmd /\ ~ui.event.shiftKey /\ ui.event.key = "t" -> Effect(TRUE, "/transfers", {})
      [] CtrlOrCmd /\ ~ui.event.shiftKey /\ ui.event.key = "a" -> Effect(TRUE, "/alerts", {})
      [] CtrlOrCmd /\ ~ui.event.shiftKey /\ ui.event.key = "k" ->
            Effect(TRUE, "", {"showShortcuts"})
      [] CtrlOrCmd /\ ~ui.event.shiftKey /\ ui.event.key = "e" ->
            Effect(TRUE, "", {"exportCSV"})
      [] CtrlOrCmd /\ ui.event.shiftKey /\ ui.event.key = "E" ->
            Effect(TRUE, "", {"exportPDF"})
      [] ~CtrlOrCmd /\ ui.event.key = "n" -> Effect(TRUE, "", {"newItem"})
      [] ~CtrlOrCmd /\ ui.event.key = "Escape" -> Effect(TRUE, "", {"closeModal"})
      [] ~CtrlOrCmd /\ ui.event.key = "?" -> Effect(TRUE, "", {"showShortcuts"})
      [] OTHER -> NoEffect

\* C29: on a page that passes every handler, a shortcut of the reference
\* pressed outside an input field does exactly what the reference says:
\* Ctrl/Cmd+Shift+E calls exportPDF and not exportCSV, Ctrl/Cmd+E without
\* Shift calls exportCSV, and so on for every listed shortcut.
C29_ShortcutReference ==
    /\ KeyPressed
    /\ ui.handlers = CustomHandlerNames
    /\ ui.event.tagName = "BODY"
    /\ Described # NoEffect
    => /\ ui.pushed = Described.pushed
       /\ ui.called = Described.called

\* C30: a keydown in an INPUT, TEXTAREA or SELECT element without Ctrl and
\* Cmd navigates nowhere and calls no custom handler.
C30_NoShortcutsWhileTyping ==
    /\ [](/\ KeyPressed
          /\ ui.event.tagName \in {"INPUT", "TEXTAREA", "SELECT"}
          /\ ~ui.event.ctrlKey
          /\ ~ui.event.metaKey
          => /\ ui.pushed = ""
             /\ ui.called = {}
             /\ ~ui.prevented)
    /\ [][/\ ui'.event.tagName \in {"INPUT", "TEXTAREA", "SELECT"}
          /\ ~ui'.event.ctrlKey
          /\ ~ui'.event.metaKey
          => ui'.path = ui.path]_vars

\* "n" typed into a SELECT on a page that has a newItem handler
C30_Witness ==
    /\ ui.event.key = "n"
    /\ ui.event.tagName = "SELECT"
    /\ ~ui.event.ctrlKey /\ ~ui.event.metaKey
    /\ "newItem" \in ui.handlers
    /\ ui.called = {}

=============================================================================
